---- MODULE Spec2Model ----
(***************************************************************************)
(* Model of the deployment-monitoring subsystem of wc-tools:               *)
(*   - the launcher commands that commit, upload, tag, push and spawn      *)
(*     the background monitor (deploy, sync, update-all),                  *)
(*   - the monitor process src/src/monitor/deploy-monitor.js: its poll     *)
(*     loop, the remote status client with its retry loop, the status      *)
(*     interpreter and the shared status file.                             *)
(*                                                                         *)
(* Strings that the code searches with String.includes are modelled as     *)
(* sequences of words; includes(k) is membership of the word k.            *)
(* A JS object with optional properties is a TLA+ record whose DOMAIN      *)
(* holds exactly the properties that are present.                          *)
(***************************************************************************)
EXTENDS Integers, Sequences, FiniteSets, TLC

VARIABLES
  cmd,        \* the command that was started
  todo,       \* the launcher's remaining steps, in program order
  launcher,   \* "running" | "exit0" | "exit1"
  git,        \* [committed, tagged, pushed : BOOLEAN] of the working copy
  uploaded,   \* the zip was accepted by the remote deploy endpoint
  config,     \* MonitorConfig handed to the monitor (statusFile, isBatchDeploy, ...)
  pc,         \* the monitor's position
  attempts,   \* monitor(): let attempts
  attempt,    \* checkStatus(): let attempt
  requests,   \* HTTP requests issued by the current checkStatus call
  status,     \* the snapshot fetched in the current iteration (<<>> = none)
  lastError,  \* the error caught in the current iteration (<<>> = none)
  response,   \* what the latest request of the current iteration came back with
  file,       \* content of the shared status file
  notes,      \* notifier calls made so far, in order
  terminal,   \* "none" | "succeeded" | "failed-early" | "timed-out" | "auth-error"
  exitCode,   \* -1 while the monitor runs, else its exit code
  spc,        \* per monitor of a batch: its position around updateSharedStatus
  queue,      \* per monitor: the updateSharedStatus calls its iteration still makes
  buffer,     \* per monitor: updateSharedStatus's local data, as read from the file
  calls,      \* per monitor: the updateSharedStatus calls that have returned
  notifier,   \* "works" | "fails": whether osascript, say and open can be run
  hasFinished,\* dashboard.js: let hasFinished
  dashExit,   \* -1, or the code of the exit the dashboard has scheduled
  snapshot,   \* the status the interpreter functions are called with
  verdict     \* what each interpreter function returned for it ("none" = not called)

vars == <<cmd, todo, launcher, git, uploaded, config, pc, attempts, attempt,
          requests, status, lastError, response, file, notes, terminal, exitCode,
          spc, queue, buffer, calls, notifier, hasFinished, dashExit,
          snapshot, verdict>>

\* the state of the monitors that share one status file
storeVars == <<spc, queue, buffer, calls>>

\* what neither the launcher nor a monitor changes
sideVars == <<notifier, hasFinished, dashExit, snapshot, verdict>>

(***************************************************************************)
(* Program constants and bounds                                            *)
(***************************************************************************)
MAX_ATTEMPTS == 60
maxRetries == 3
\* longest test_runs mapping the remote returns in the model
MaxRuns == 2

(***************************************************************************)
(* Remote responses                                                        *)
(***************************************************************************)
RunStatuses == {"pending", "success", "failed", "cancelled"}
TestTypes == <<"security", "phpcs", "e2e", "activation">>
ResultUrls == <<"https://qit/1", "https://qit/2", "https://qit/3", "https://qit/4">>

\* one TestRun; its place in the mapping fixes its id, type and URL
TestRun(i, s) ==
  [test_run_id |-> i, status |-> s, test_type |-> TestTypes[i], result_url |-> ResultUrls[i]]

RunSeqs(n) == UNION {[1..k -> RunStatuses] : k \in 0..n}

\* Object.values(test_runs) of a mapping whose runs have the statuses ss
TestRuns(ss) == [i \in 1..Len(ss) |-> TestRun(i, ss[i])]

\* runs that all have the status v
Uniform(n, v) == {[i \in 1..k |-> v] : k \in 1..n}

\* the deployment itself reported in error: without runs, and with runs that are
\* all still pending or all successful
TopLevelFailures ==
  {[status |-> "error"]}
  \cup {[status |-> "error", test_runs |-> TestRuns(ss)] :
          ss \in Uniform(MaxRuns, "pending") \cup Uniform(MaxRuns, "success")}

\* the status snapshots the remote answers with
Snapshots ==
  {[status |-> "processing"]}
  \cup {[status |-> "processing", test_runs |-> TestRuns(ss)] : ss \in RunSeqs(MaxRuns)}
  \cup TopLevelFailures

\* String.prototype.includes on a message made of words
Includes(msg, k) == \E i \in 1..Len(msg) : msg[i] = k

\* what fetch() rejects with when the connection cannot be made
NetworkFailures == {<<"request", "failed,", "reason:", "connect", "ECONNREFUSED">>}

\* non-success HTTP responses: status code and (truncated) body text
HttpFailures ==
  { [code |-> 401, body |-> <<"Unauthorized">>],
    [code |-> 403, body |-> <<"Forbidden">>],
    [code |-> 500, body |-> <<"Internal", "Server", "Error">>],
    [code |-> 500, body |-> <<"upstream", "returned", "403">>],
    [code |-> 401, body |-> <<"gateway", "ETIMEDOUT">>] }

\* bodies of a 2xx response that response.json() cannot parse
UnparseableBodies == {<<"<html>">>}

\* everything one request can come back with
Responses ==
  {[kind |-> "reject", message |-> m] : m \in NetworkFailures}
  \cup {[kind |-> "http", code |-> h.code, body |-> h.body] : h \in HttpFailures}
  \cup {[kind |-> "unparseable", body |-> b] : b \in UnparseableBodies}
  \cup {[kind |-> "json", value |-> "null"]}
  \cup {[kind |-> "json", value |-> "object", data |-> d] : d \in Snapshots}

(***************************************************************************)
(* Status interpreter                                                      *)
(***************************************************************************)
HasRuns(s) == "test_runs" \in DOMAIN s

IsPending(t) == t.status \in {"pending", "running", "queued"}

\* testRuns.filter(t => !['pending', 'running', 'queued'].includes(t.status)).length
CompletedCount(runs) == Cardinality({i \in 1..Len(runs) : ~IsPending(runs[i])})

\* Math.ceil in the place of Math.round
RoundPercent_ceil(c, n) == (100 * c + n - 1) \div n

\* Math.floor in the place of Math.round
RoundPercent_floor(c, n) == (100 * c) \div n

\* Math.round of the non-negative rational 100*c/n
RoundPercent(c, n) == (200 * c + n) \div (2 * n)

calculateProgress(s) ==
  IF ~HasRuns(s) THEN 5
  ELSE IF Len(s.test_runs) = 0 THEN 10
  ELSE RoundPercent(CompletedCount(s.test_runs), Len(s.test_runs))

\* areTestsComplete whose pendingStates holds 'pending' only
areTestsComplete_pendingOnly(s) ==
  IF ~HasRuns(s) \/ Len(s.test_runs) = 0 THEN FALSE
  ELSE \A i \in 1..Len(s.test_runs) : s.test_runs[i].status # "pending"

\* areTestsComplete without the test for an empty mapping
areTestsComplete_emptyIsComplete(s) ==
  IF ~HasRuns(s) THEN FALSE
  ELSE \A i \in 1..Len(s.test_runs) : ~IsPending(s.test_runs[i])

areTestsComplete(s) ==
  IF ~HasRuns(s) \/ Len(s.test_runs) = 0 THEN FALSE
  ELSE \A i \in 1..Len(s.test_runs) : ~IsPending(s.test_runs[i])

IsFailure(v) == v = "failed" \/ v = "error"

\* hasFailedEarly that tests for 'failed' and not for 'error'
hasFailedEarly_failedOnly(s) ==
  \/ s.status = "failed"
  \/ /\ HasRuns(s)
     /\ \E i \in 1..Len(s.test_runs) : s.test_runs[i].status = "failed"

\* hasFailedEarly that looks at the top-level status only
hasFailedEarly_topLevelOnly(s) == IsFailure(s.status)

hasFailedEarly(s) ==
  \/ IsFailure(s.status)
  \/ /\ HasRuns(s)
     /\ \E i \in 1..Len(s.test_runs) : IsFailure(s.test_runs[i].status)

\* didTestsPass that is content with runs none of which failed
didTestsPass_noFailure(s) ==
  IF ~HasRuns(s) THEN FALSE
  ELSE \A i \in 1..Len(s.test_runs) : ~IsFailure(s.test_runs[i].status)

didTestsPass(s) ==
  IF ~HasRuns(s) THEN FALSE
  ELSE \A i \in 1..Len(s.test_runs) : s.test_runs[i].status = "success"

RECURSIVE FailedOf(_)
FailedOf(runs) ==
  IF runs = <<>> THEN <<>>
  ELSE LET t == Head(runs)
           rest == FailedOf(Tail(runs))
       IN IF t.status # "success"
          THEN <<[type |-> t.test_type, status |-> t.status, url |-> t.result_url]>> \o rest
          ELSE rest

RECURSIVE FailuresOf(_)
FailuresOf(runs) ==
  IF runs = <<>> THEN <<>>
  ELSE LET t == Head(runs)
           rest == FailuresOf(Tail(runs))
       IN IF IsFailure(t.status)
          THEN <<[type |-> t.test_type, status |-> t.status, url |-> t.result_url]>> \o rest
          ELSE rest

\* getFailedTests that collects the failed and errored runs only
getFailedTests_failuresOnly(s) == IF HasRuns(s) THEN FailuresOf(s.test_runs) ELSE <<>>

getFailedTests(s) == IF HasRuns(s) THEN FailedOf(s.test_runs) ELSE <<>>

RECURSIVE Join(_)
\* failed.map(f => f.type).join(', ') as a list of words
Join(failed) == IF failed = <<>> THEN <<>> ELSE <<Head(failed).type>> \o Join(Tail(failed))

(***************************************************************************)
(* Status store                                                            *)
(***************************************************************************)
NoFile == [kind |-> "absent"]
\* the file exists and is empty: readFileSync returns ''
EmptyFile == [kind |-> "empty"]
\* the file holds text that JSON.parse rejects
InvalidFile == [kind |-> "invalid"]
\* the file holds JSON that is no array, such as {} or null
ObjectFile == [kind |-> "object"]
\* the file exists and readFileSync fails on it
UnreadableFile == [kind |-> "unreadable"]
\* the file holds the array d and writeFileSync fails on it
ReadOnlyFile(d) == [kind |-> "readonly", data |-> d]
JsonFile(d) == [kind |-> "json", data |-> d]

\* an object literal: the properties given, and those given as undefined
Obj(fields, undef) == [set |-> fields, undefined |-> undef]

Restrict(r, keys) == [k \in keys |-> r[k]]

\* data.findIndex(d => d.productId === productId); 0 stands for -1
FindIndex(data, productId) ==
  IF \E i \in 1..Len(data) : data[i].productId = productId
  THEN CHOOSE i \in 1..Len(data) :
         /\ data[i].productId = productId
         /\ \A j \in 1..(i - 1) : data[j].productId # productId
  ELSE 0

\* the merge with the spread operands swapped: { ...updates, ...old }
MergeEntry_oldWins(old, updates, now) ==
  LET merged == [lastUpdate |-> now] @@ old @@ updates.set
  IN Restrict(merged, DOMAIN merged \ updates.undefined)

\* { ...old, ...updates, lastUpdate: Date.now() } as JSON.stringify keeps it
MergeEntry(old, updates, now) ==
  LET merged == [lastUpdate |-> now] @@ updates.set @@ old
  IN Restrict(merged, DOMAIN merged \ updates.undefined)

\* a new entry made of the updates alone
NewEntry_updatesOnly(cfg, updates, now) ==
  LET made == updates.set @@ [productId |-> cfg.productId]
  IN Restrict(made, DOMAIN made \ updates.undefined)

\* { productId, slug, version, startTime: Date.now(), ...updates }
NewEntry(cfg, updates, now) ==
  LET made == updates.set @@ [productId |-> cfg.productId, slug |-> cfg.slug,
                              version |-> cfg.version, startTime |-> now]
  IN Restrict(made, DOMAIN made \ updates.undefined)

\* JSON.parse(content) throws: the catch block ends the call without a write
ReadThrows(f) == f.kind = "invalid"

\* let data = []; if (existsSync) { data = content ? JSON.parse(content) : [] }
ReadData(f) == IF f.kind = "json" THEN f.data ELSE <<>>

\* a modification that pushes without looking for the entry
Modify_alwaysPushes(data, cfg, updates, now) == Append(data, NewEntry(cfg, updates, now))

\* findIndex, then merge into data[index] or push a new entry
Modify(data, cfg, updates, now) ==
  LET index == FindIndex(data, cfg.productId)
  IN IF index # 0
     THEN [data EXCEPT ![index] = MergeEntry(data[index], updates, now)]
     ELSE Append(data, NewEntry(cfg, updates, now))

\* the try block throws and the catch block ends the call with nothing written:
\* readFileSync on an unreadable file, JSON.parse on invalid content,
\* data.findIndex on content that is no array, writeFileSync on a read-only file
UpdateThrows(f) == ReadThrows(f) \/ f.kind \in {"unreadable", "object", "readonly"}

\* updateSharedStatus without the test for a missing statusFile
updateSharedStatus_statusFileUnchecked(f, cfg, updates, now) ==
  IF UpdateThrows(f) THEN f
  ELSE JsonFile(Modify(ReadData(f), cfg, updates, now))

\* the file content after updateSharedStatus(updates)
updateSharedStatus(f, cfg, updates, now) ==
  IF ~cfg.statusFile \/ UpdateThrows(f) THEN f
  ELSE JsonFile(Modify(ReadData(f), cfg, updates, now))

\* the monitor's own entry in the file (<<>> when there is none)
EntryOf(f, productId) ==
  IF f.kind = "json" /\ FindIndex(f.data, productId) # 0
  THEN f.data[FindIndex(f.data, productId)]
  ELSE <<>>

(***************************************************************************)
(* Launcher commands                                                       *)
(***************************************************************************)
Commands == {"deploy", "deploy-legacy", "sync", "update-all"}

\* es deploy when it commits with gitCommitAndTag instead of gitCommitOnly
DeploySteps_tagWithCommit == <<"commit", "tag", "upload", "spawn">>

\* es deploy: gitCommitOnly, deployToWooCommerce, spawnDeployMonitor
DeploySteps == <<"commit", "upload", "spawn">>

\* wc-deploy deploy: gitCommitAndTag, then deployToWooCommerce
LegacyDeploySteps == <<"commit", "tag", "upload">>

\* es sync: deployToWooCommerce, commitAndTagVersion, pushWithTags
SyncSteps == <<"upload", "commit", "tag", "push">>

\* es update-all: the status file, then per extension commit, deploy, spawn
UpdateAllSteps == <<"statusfile", "commit", "upload", "spawn">>

\* the git, upload and spawn steps of each command, in program order
Steps(c) ==
  CASE c = "deploy"        -> DeploySteps
    [] c = "deploy-legacy" -> LegacyDeploySteps
    [] c = "sync"          -> SyncSteps
    [] c = "update-all"    -> UpdateAllSteps

\* the MonitorConfig each command builds
MonitorConfig(c) ==
  [productId |-> "p1", slug |-> "plugin-one", version |-> "1.0.1",
   statusFile |-> c = "update-all",
   isBatchDeploy |-> c = "update-all",
   batchIndex |-> 0,
   batchTotal |-> IF c = "update-all" THEN 2 ELSE 1]

\* update-all's initial status file: one entry per eligible extension
initialStatus ==
  << [productId |-> "p1", slug |-> "plugin-one", version |-> "1.0.1",
      status |-> "initializing", progress |-> 0, startTime |-> 0],
     [productId |-> "p2", slug |-> "plugin-two", version |-> "2.3.1",
      status |-> "initializing", progress |-> 0, startTime |-> 0] >>

Init ==
  /\ cmd \in Commands
  /\ todo = Steps(cmd)
  /\ launcher = "running"
  /\ git = [committed |-> FALSE, tagged |-> FALSE, pushed |-> FALSE]
  /\ uploaded = FALSE
  /\ config = MonitorConfig(cmd)
  /\ pc = "idle"
  /\ attempts = 0
  /\ attempt = 0
  /\ requests = 0
  /\ status = <<>>
  /\ lastError = <<>>
  /\ response = <<>>
  /\ file = NoFile
  /\ notes = <<>>
  /\ terminal = "none"
  /\ exitCode = -1
  /\ spc = <<>>
  /\ queue = <<>>
  /\ buffer = <<>>
  /\ calls = <<>>
  /\ notifier = "works"
  /\ hasFinished = FALSE
  /\ dashExit = -1
  /\ snapshot = <<>>
  /\ verdict = <<>>

monitorVars == <<pc, attempts, attempt, requests, status, lastError, response, notes, terminal, exitCode>>

AtStep(step) == launcher = "running" /\ todo # <<>> /\ Head(todo) = step

\* the launcher moves past its current step and returns after the last one
Advance ==
  /\ todo' = Tail(todo)
  /\ launcher' = IF Tail(todo) = <<>> THEN "exit0" ELSE "running"

\* git add -A; git commit
GitCommit ==
  /\ AtStep("commit")
  /\ git' = [git EXCEPT !.committed = TRUE]
  /\ Advance
  /\ UNCHANGED <<sideVars, storeVars, cmd, uploaded, config, file, monitorVars>>

\* git tag -a <version>
GitTag ==
  /\ AtStep("tag")
  /\ git' = [git EXCEPT !.tagged = TRUE]
  /\ Advance
  /\ UNCHANGED <<sideVars, storeVars, cmd, uploaded, config, file, monitorVars>>

\* git push; git push --tags
GitPush ==
  /\ AtStep("push")
  /\ git' = [git EXCEPT !.pushed = TRUE]
  /\ Advance
  /\ UNCHANGED <<sideVars, storeVars, cmd, uploaded, config, file, monitorVars>>

\* deployToWooCommerce: the upload is accepted, or it throws and the command exits 1
Upload ==
  /\ AtStep("upload")
  /\ \E ok \in BOOLEAN :
       IF ok THEN uploaded' = TRUE /\ Advance
       ELSE uploaded' = FALSE /\ todo' = <<>> /\ launcher' = "exit1"
  /\ UNCHANGED <<sideVars, storeVars, cmd, git, config, file, monitorVars>>

\* update-all writes the initial status file
CreateStatusFile ==
  /\ AtStep("statusfile")
  /\ file' = JsonFile(initialStatus)
  /\ Advance
  /\ UNCHANGED <<sideVars, storeVars, cmd, git, uploaded, config, monitorVars>>

\* spawn('node', [monitorPath, configBase64], {detached: true})
SpawnMonitor ==
  /\ AtStep("spawn")
  /\ pc = "idle"
  /\ pc' = "start"
  /\ Advance
  /\ UNCHANGED <<sideVars, storeVars, cmd, git, uploaded, config, file, attempts, attempt, requests,
                 status, lastError, response, notes, terminal, exitCode>>

(***************************************************************************)
(* Monitor process                                                         *)
(***************************************************************************)
\* how the command run by notify, speak or openUrl ends; a failure is caught
\* inside the function
Outcome == [failed |-> notifier = "fails"]

\* Date.now(), on a clock that ticks once per poll iteration
Now == attempts

launcherVars == <<cmd, todo, launcher, git, uploaded, config>>

\* the Error a failed request ends with
ErrorMessage(r) ==
  CASE r.kind = "reject" -> r.message
    [] r.kind = "http" -> <<"API", "error:", ToString(r.code), "-">> \o r.body
    [] r.kind = "unparseable" -> <<"invalid", "json", "response", "body">> \o r.body
    [] r.kind = "json" -> <<"Invalid", "API", "response:", "expected", "object">>

\* !data for a parsed JSON value
Falsy(v) == v \in {"null", "zero", "emptystring", "false"}

\* typeof data for a parsed JSON value
TypeOf(v) ==
  CASE v \in {"null", "array", "object"} -> "object"
    [] v \in {"zero", "number"} -> "number"
    [] v \in {"emptystring", "string"} -> "string"
    [] v \in {"false", "true"} -> "boolean"

\* checkStatus returns the parsed body unless (!data || typeof data !== 'object')
IsData(r) == r.kind = "json" /\ ~(Falsy(r.value) \/ TypeOf(r.value) # "object")

\* the retry test without the connection-refused case
IsRetryable_noConnRefused(m) ==
  \/ Includes(m, "ETIMEDOUT")
  \/ Includes(m, "ENOTFOUND")
  \/ Includes(m, "fetch failed")

\* "Only retry on network errors"
IsRetryable(m) ==
  \/ Includes(m, "ECONNREFUSED")
  \/ Includes(m, "ETIMEDOUT")
  \/ Includes(m, "ENOTFOUND")
  \/ Includes(m, "fetch failed")

\* "Stop on auth errors"
IsAuthError(m) == Includes(m, "401") \/ Includes(m, "403")

\* the partial entry written after a successful fetch
PollUpdate(s) ==
  IF HasRuns(s)
  THEN Obj([status |-> s.status, progress |-> calculateProgress(s), testRuns |-> s.test_runs], {})
  ELSE Obj([status |-> s.status, progress |-> calculateProgress(s)], {"testRuns"})

\* monitor() up to the loop: the initial status write
MonitorStart ==
  /\ pc = "start"
  /\ file' = updateSharedStatus(file, config,
               Obj([status |-> "queued", progress |-> 0, startTime |-> Now], {}), Now)
  /\ attempts' = 0
  /\ pc' = "loop"
  /\ UNCHANGED <<sideVars, storeVars, launcherVars, attempt, requests, status, lastError, response, notes, terminal, exitCode>>

\* the loop entered with attempts <= MAX_ATTEMPTS
BeginAttempt_offByOne ==
  /\ pc = "loop"
  /\ attempts <= MAX_ATTEMPTS
  /\ attempts' = attempts + 1
  /\ attempt' = 0
  /\ requests' = 0
  /\ status' = <<>>
  /\ lastError' = <<>>
  /\ response' = <<>>
  /\ pc' = "request"
  /\ UNCHANGED <<sideVars, storeVars, launcherVars, file, notes, terminal, exitCode>>

\* while (attempts < MAX_ATTEMPTS) { attempts++; ... checkStatus()
BeginAttempt ==
  /\ pc = "loop"
  /\ attempts < MAX_ATTEMPTS
  /\ attempts' = attempts + 1
  /\ attempt' = 0
  /\ requests' = 0
  /\ status' = <<>>
  /\ lastError' = <<>>
  /\ response' = <<>>
  /\ pc' = "request"
  /\ UNCHANGED <<sideVars, storeVars, launcherVars, file, notes, terminal, exitCode>>

\* the loop condition fails: the timeout status write
Timeout ==
  /\ pc = "loop"
  /\ ~(attempts < MAX_ATTEMPTS)
  /\ file' = updateSharedStatus(file, config,
               Obj([status |-> "timeout", progress |-> calculateProgress(<<>>)], {}), Now)
  /\ terminal' = "timed-out"
  /\ pc' = "notify"
  /\ UNCHANGED <<sideVars, storeVars, launcherVars, attempts, attempt, requests, status, lastError, response, notes, exitCode>>

\* a poll update whose store failure is not caught inside updateSharedStatus:
\* the exception lands in the catch block of the loop
Received_storeErrorEscapes(data) ==
  IF config.statusFile /\ UpdateThrows(file)
  THEN /\ status' = data
       /\ lastError' = <<"status", "store", "error">>
       /\ file' = file
       /\ pc' = "sleep"
       /\ UNCHANGED terminal
  ELSE /\ status' = data
       /\ file' = updateSharedStatus(file, config, PollUpdate(data), Now)
       /\ pc' = "classify"
       /\ UNCHANGED <<lastError, terminal>>

\* checkStatus returned: compute progress and write the poll update
Received(data) ==
  /\ status' = data
  /\ file' = updateSharedStatus(file, config, PollUpdate(data), Now)
  /\ pc' = "classify"
  /\ UNCHANGED <<lastError, terminal>>

\* checkStatus threw: the catch block of the loop
Caught(m) ==
  /\ lastError' = m
  /\ file' = updateSharedStatus(file, config, Obj([status |-> "error", error |-> m], {}), Now)
  /\ IF IsAuthError(m)
     THEN terminal' = "auth-error" /\ pc' = "notify"
     ELSE terminal' = terminal /\ pc' = "sleep"
  /\ UNCHANGED status

\* one pass of checkStatus's for loop: one request and what follows from its outcome
Request ==
  /\ pc = "request"
  /\ attempt < maxRetries
  /\ requests' = requests + 1
  /\ \E r \in Responses :
       /\ response' = r
       /\ IF IsData(r) THEN Received(r.data)
          ELSE IF attempt < maxRetries - 1 /\ IsRetryable(ErrorMessage(r))
          THEN pc' = "backoff" /\ UNCHANGED <<status, lastError, file, terminal>>
          ELSE Caught(ErrorMessage(r))
  /\ UNCHANGED <<sideVars, storeVars, launcherVars, attempts, attempt, notes, exitCode>>

\* a retry that does not count: continue without attempt++
Backoff_retryNotCounted ==
  /\ pc = "backoff"
  /\ pc' = "request"
  /\ UNCHANGED <<sideVars, storeVars, launcherVars, attempts, attempt, requests, status, lastError, response, file, notes, terminal, exitCode>>

\* the 5 second wait before the next request; continue
Backoff ==
  /\ pc = "backoff"
  /\ attempt' = attempt + 1
  /\ pc' = "request"
  /\ UNCHANGED <<sideVars, storeVars, launcherVars, attempts, requests, status, lastError, response, file, notes, terminal, exitCode>>

\* a failure branch that notifies before it has written the status
FailEarly_notifiesFirst ==
  /\ pc = "classify"
  /\ hasFailedEarly(status)
  /\ file' = file
  /\ terminal' = "failed-early"
  /\ pc' = "notify"
  /\ UNCHANGED <<sideVars, storeVars, launcherVars, attempts, attempt, requests, status, lastError, response, notes, exitCode>>

\* if (hasFailedEarly(status)) { ... updateSharedStatus({status: 'failed', ...})
FailEarly ==
  /\ pc = "classify"
  /\ hasFailedEarly(status)
  /\ file' = updateSharedStatus(file, config,
               Obj([status |-> "failed", progress |-> calculateProgress(status),
                    failedTests |-> getFailedTests(status)], {}), Now)
  /\ terminal' = "failed-early"
  /\ pc' = "notify"
  /\ UNCHANGED <<sideVars, storeVars, launcherVars, attempts, attempt, requests, status, lastError, response, notes, exitCode>>

\* a success branch that does not leave the loop
Succeed_noExit ==
  /\ pc = "classify"
  /\ ~hasFailedEarly(status)
  /\ areTestsComplete(status)
  /\ didTestsPass(status)
  /\ file' = updateSharedStatus(file, config, Obj([status |-> "success", progress |-> 100], {}), Now)
  /\ terminal' = "succeeded"
  /\ pc' = "sleep"
  /\ UNCHANGED <<sideVars, storeVars, launcherVars, attempts, attempt, requests, status, lastError, response, notes, exitCode>>

\* if (areTestsComplete(status)) { if (didTestsPass(status)) { ...
Succeed ==
  /\ pc = "classify"
  /\ ~hasFailedEarly(status)
  /\ areTestsComplete(status)
  /\ didTestsPass(status)
  /\ file' = updateSharedStatus(file, config, Obj([status |-> "success", progress |-> 100], {}), Now)
  /\ terminal' = "succeeded"
  /\ pc' = "notify"
  /\ UNCHANGED <<sideVars, storeVars, launcherVars, attempts, attempt, requests, status, lastError, response, notes, exitCode>>

\* a pending iteration that also notifies
KeepPolling_notifies ==
  /\ pc = "classify"
  /\ ~hasFailedEarly(status)
  /\ ~(areTestsComplete(status) /\ didTestsPass(status))
  /\ notes' = Append(notes, [call |-> "notify", title |-> <<"Deploy", "Pending">>,
                             message |-> <<config.slug, config.version>>, sound |-> "Glass"] @@ Outcome)
  /\ pc' = "sleep"
  /\ UNCHANGED <<sideVars, storeVars, launcherVars, attempts, attempt, requests, status, lastError, response, file, terminal, exitCode>>

\* a pending iteration that goes on without waiting for the poll interval
KeepPolling_noWait ==
  /\ pc = "classify"
  /\ ~hasFailedEarly(status)
  /\ ~(areTestsComplete(status) /\ didTestsPass(status))
  /\ pc' = "loop"
  /\ UNCHANGED <<sideVars, storeVars, launcherVars, attempts, attempt, requests, status, lastError, response, file, notes, terminal, exitCode>>

\* "Still pending, wait and retry"
KeepPolling ==
  /\ pc = "classify"
  /\ ~hasFailedEarly(status)
  /\ ~(areTestsComplete(status) /\ didTestsPass(status))
  /\ pc' = "sleep"
  /\ UNCHANGED <<sideVars, storeVars, launcherVars, attempts, attempt, requests, status, lastError, response, file, notes, terminal, exitCode>>

\* await new Promise(resolve => setTimeout(resolve, POLL_INTERVAL))
Sleep ==
  /\ pc = "sleep"
  /\ pc' = "loop"
  /\ UNCHANGED <<sideVars, storeVars, launcherVars, attempts, attempt, requests, status, lastError, response, file, notes, terminal, exitCode>>

(***************************************************************************)
(* Terminal transition: notifier calls and exit                            *)
(***************************************************************************)
BatchLabel(cfg) == <<ToString(cfg.batchIndex + 1), "/", ToString(cfg.batchTotal)>>

\* the notify(title, message, sound) call of each terminal branch
Notification(t, cfg, s, err) ==
  CASE t = "failed-early" ->
         IF cfg.isBatchDeploy
         THEN [call |-> "notify", title |-> <<"Deploy">> \o BatchLabel(cfg) \o <<"Failed">>,
               message |-> <<cfg.slug, cfg.version>> \o Join(getFailedTests(s)), sound |-> "Basso"]
         ELSE [call |-> "notify", title |-> <<"Deploy", "Failed">>,
               message |-> <<cfg.slug, cfg.version, "failed:">> \o Join(getFailedTests(s)), sound |-> "Basso"]
    [] t = "succeeded" ->
         IF cfg.isBatchDeploy
         THEN [call |-> "notify", title |-> <<"Deploy">> \o BatchLabel(cfg),
               message |-> <<cfg.slug, cfg.version, "ready to tag">>, sound |-> "Glass"]
         ELSE [call |-> "notify", title |-> <<"Deploy", "Success">>,
               message |-> <<cfg.slug, cfg.version, "ready to tag and push">>, sound |-> "Glass"]
    [] t = "auth-error" ->
         [call |-> "notify", title |-> <<"Deploy", "Auth", "Error">>,
          message |-> <<cfg.slug>> \o err, sound |-> "Basso"]
    [] t = "timed-out" ->
         [call |-> "notify", title |-> <<"Deploy", "Timeout">>,
          message |-> <<cfg.slug, cfg.version, "monitoring timed out">>, sound |-> "Funk"]

\* the URL the branch would open: failed[0]?.url, or the first test run's result_url
UrlToOpen(t, s) ==
  IF t = "failed-early"
  THEN (IF getFailedTests(s) # <<>> THEN <<getFailedTests(s)[1].url>> ELSE <<>>)
  ELSE (IF HasRuns(s) /\ Len(s.test_runs) > 0 THEN <<s.test_runs[1].result_url>> ELSE <<>>)

SpokenText(t) ==
  IF t = "failed-early" THEN "Deployment failed" ELSE "Deployment complete. Ready to tag."

\* a notify that goes on to speak in a batch deployment too
Notify_speaksInBatch ==
  /\ pc = "notify"
  /\ notes' = Append(notes, Notification(terminal, config, status, lastError) @@ Outcome)
  /\ pc' = IF terminal \in {"failed-early", "succeeded"} THEN "speak" ELSE "exit"
  /\ UNCHANGED <<sideVars, storeVars, launcherVars, attempts, attempt, requests, status, lastError, response, file, terminal, exitCode>>

\* a notify whose failing command is not caught inside notify: the exception
\* lands in the catch block of the loop
Notify_failureEscapes ==
  /\ pc = "notify"
  /\ notes' = Append(notes, Notification(terminal, config, status, lastError) @@ Outcome)
  /\ IF notifier = "fails"
     THEN /\ file' = updateSharedStatus(file, config,
                        Obj([status |-> "error", error |-> <<"Command", "failed">>], {}), Now)
          /\ pc' = "sleep"
     ELSE /\ file' = file
          /\ pc' = IF ~config.isBatchDeploy /\ terminal \in {"failed-early", "succeeded"}
                   THEN "speak" ELSE "exit"
  /\ UNCHANGED <<sideVars, storeVars, launcherVars, attempts, attempt, requests, status, lastError, response, terminal, exitCode>>

\* await notify(...)
Notify ==
  /\ pc = "notify"
  /\ notes' = Append(notes, Notification(terminal, config, status, lastError) @@ Outcome)
  /\ pc' = IF ~config.isBatchDeploy /\ terminal \in {"failed-early", "succeeded"}
           THEN "speak" ELSE "exit"
  /\ UNCHANGED <<sideVars, storeVars, launcherVars, attempts, attempt, requests, status, lastError, response, file, terminal, exitCode>>

\* await speak(...)
Speak ==
  /\ pc = "speak"
  /\ notes' = Append(notes, [call |-> "speak", text |-> SpokenText(terminal)] @@ Outcome)
  /\ pc' = IF UrlToOpen(terminal, status) # <<>> THEN "open" ELSE "exit"
  /\ UNCHANGED <<sideVars, storeVars, launcherVars, attempts, attempt, requests, status, lastError, response, file, terminal, exitCode>>

\* await openUrl(...)
OpenUrl ==
  /\ pc = "open"
  /\ notes' = Append(notes, [call |-> "openUrl", url |-> UrlToOpen(terminal, status)[1]] @@ Outcome)
  /\ pc' = "exit"
  /\ UNCHANGED <<sideVars, storeVars, launcherVars, attempts, attempt, requests, status, lastError, response, file, terminal, exitCode>>

\* the exit code of each terminal branch
ExitCodeOf(t) ==
  CASE t = "succeeded" -> 0
    [] t = "failed-early" -> 1
    [] t = "auth-error" -> 1
    [] t = "timed-out" -> 2

\* an exit that tags and pushes after a success
Exit_tagsOnSuccess ==
  /\ pc = "exit"
  /\ exitCode' = ExitCodeOf(terminal)
  /\ pc' = "exited"
  /\ git' = IF terminal = "succeeded"
            THEN [git EXCEPT !.tagged = TRUE, !.pushed = TRUE] ELSE git
  /\ UNCHANGED <<sideVars, storeVars, cmd, todo, launcher, uploaded, config, attempts, attempt, requests,
                 status, lastError, response, file, notes, terminal>>

\* process.exit(code)
Exit ==
  /\ pc = "exit"
  /\ exitCode' = ExitCodeOf(terminal)
  /\ pc' = "exited"
  /\ UNCHANGED <<sideVars, storeVars, launcherVars, attempts, attempt, requests, status, lastError, response, file, notes, terminal>>

MonitorStep ==
  \/ MonitorStart \/ BeginAttempt \/ Timeout \/ Request \/ Backoff
  \/ FailEarly \/ Succeed \/ KeepPolling \/ Sleep
  \/ Notify \/ Speak \/ OpenUrl \/ Exit

LauncherStep ==
  \/ GitCommit \/ GitTag \/ GitPush \/ Upload \/ CreateStatusFile \/ SpawnMonitor

Next == LauncherStep \/ MonitorStep

Spec == Init /\ [][Next]_vars

TypeOK ==
  /\ pc \in {"idle", "start", "loop", "request", "backoff", "classify", "sleep",
             "notify", "speak", "open", "exit", "exited"}
  /\ attempts \in 0..MAX_ATTEMPTS
  /\ exitCode \in {-1, 0, 1, 2}

(***************************************************************************)
(* The monitor process on its own, in an environment that can fail: the    *)
(* status file may be unusable and the notifier commands may be missing    *)
(***************************************************************************)
\* the environments a spawned monitor runs in: the command that spawned it,
\* the status file at its statusFile path, and the notifier commands
Environments ==
  { [cmd |-> "update-all", file |-> JsonFile(initialStatus), notifier |-> "fails"],
    [cmd |-> "update-all", file |-> InvalidFile, notifier |-> "works"],
    [cmd |-> "update-all", file |-> ObjectFile, notifier |-> "fails"],
    [cmd |-> "update-all", file |-> UnreadableFile, notifier |-> "works"],
    [cmd |-> "update-all", file |-> ReadOnlyFile(initialStatus), notifier |-> "works"],
    [cmd |-> "deploy", file |-> NoFile, notifier |-> "fails"] }

MonitorInit ==
  /\ \E env \in Environments :
       /\ cmd = env.cmd
       /\ file = env.file
       /\ notifier = env.notifier
  /\ todo = <<>>
  /\ launcher = "exit0"
  /\ git = [committed |-> TRUE, tagged |-> FALSE, pushed |-> FALSE]
  /\ uploaded = TRUE
  /\ config = MonitorConfig(cmd)
  /\ pc = "start"
  /\ attempts = 0
  /\ attempt = 0
  /\ requests = 0
  /\ status = <<>>
  /\ lastError = <<>>
  /\ response = <<>>
  /\ notes = <<>>
  /\ terminal = "none"
  /\ exitCode = -1
  /\ spc = <<>>
  /\ queue = <<>>
  /\ buffer = <<>>
  /\ calls = <<>>
  /\ hasFinished = FALSE
  /\ dashExit = -1
  /\ snapshot = <<>>
  /\ verdict = <<>>

MonitorSpec == MonitorInit /\ [][MonitorStep]_vars

(***************************************************************************)
(* Several monitors on one status file                                     *)
(*                                                                         *)
(* Each monitor is a process of its own; updateSharedStatus reads the      *)
(* whole file, changes its copy and writes the whole file back, and no     *)
(* lock keeps another process out in between.  writeFileSync opens the     *)
(* file truncating it and then writes, so another process can read the     *)
(* file while it is empty.                                                 *)
(***************************************************************************)
\* polls followed per monitor
MaxPolls == 1

\* the deployments of the batch
ProductIds == {initialStatus[i].productId : i \in 1..Len(initialStatus)}

\* the config the launcher hands to the monitor of deployment p
StoreConfig(p) ==
  LET e == initialStatus[FindIndex(initialStatus, p)]
  IN [productId |-> p, slug |-> e.slug, version |-> e.version,
      statusFile |-> TRUE, isBatchDeploy |-> TRUE]

\* what the status file can hold when the monitors start
StoreFiles == {NoFile, InvalidFile, JsonFile(initialStatus)}

\* the snapshots the remote answers these monitors with
StoreSnapshots ==
  {[status |-> "processing"]}
  \cup {[status |-> "processing", test_runs |-> TestRuns(<<v>>)] : v \in {"pending", "success", "failed"}}

\* monitor(): the write that precedes the loop
StartCalls(now) ==
  << [kind |-> "queued", updates |-> Obj([status |-> "queued", progress |-> 0, startTime |-> now], {})] >>

\* the writes of one iteration that fetched s: the poll update, then the
\* update of the terminal branch it takes, if any
IterationCalls(s) ==
  << [kind |-> "poll", updates |-> PollUpdate(s)] >>
  \o (IF hasFailedEarly(s)
      THEN << [kind |-> "terminal",
               updates |-> Obj([status |-> "failed", progress |-> calculateProgress(s),
                                failedTests |-> getFailedTests(s)], {})] >>
      ELSE IF areTestsComplete(s) /\ didTestsPass(s)
      THEN << [kind |-> "terminal", updates |-> Obj([status |-> "success", progress |-> 100], {})] >>
      ELSE <<>>)

\* Date.now() of monitor p, on a clock that ticks with each of its calls
StoreNow(p) == Len(calls[p]) + 1

\* the polls monitor p has made
PollsOf(p) == Cardinality({i \in 1..Len(calls[p]) : calls[p][i].kind \in {"poll", "error"}})

StoreInit ==
  /\ file \in StoreFiles
  /\ spc = [p \in ProductIds |-> "start"]
  /\ queue = [p \in ProductIds |-> <<>>]
  /\ buffer = [p \in ProductIds |-> <<>>]
  /\ calls = [p \in ProductIds |-> <<>>]
  /\ notifier = "works"
  /\ hasFinished = FALSE
  /\ dashExit = -1
  /\ snapshot = <<>>
  /\ verdict = <<>>
  /\ cmd = "update-all"
  /\ todo = <<>>
  /\ launcher = "exit0"
  /\ git = [committed |-> TRUE, tagged |-> FALSE, pushed |-> FALSE]
  /\ uploaded = TRUE
  /\ config = MonitorConfig("update-all")
  /\ pc = "idle"
  /\ attempts = 0
  /\ attempt = 0
  /\ requests = 0
  /\ status = <<>>
  /\ lastError = <<>>
  /\ response = <<>>
  /\ notes = <<>>
  /\ terminal = "none"
  /\ exitCode = -1

\* where monitor p goes when the call at the head of its queue has returned
AfterCall(p) ==
  IF Tail(queue[p]) # <<>> THEN "call"
  ELSE IF Head(queue[p]).kind = "terminal" THEN "exited"
  ELSE "poll"

\* the call at the head of p's queue returns
Return(p) ==
  /\ calls' = [calls EXCEPT ![p] = Append(@, Head(queue[p]))]
  /\ queue' = [queue EXCEPT ![p] = Tail(@)]
  /\ spc' = [spc EXCEPT ![p] = AfterCall(p)]
  /\ buffer' = [buffer EXCEPT ![p] = <<>>]

\* monitor(): "Initialize status"
StoreStart(p) ==
  /\ spc[p] = "start"
  /\ queue' = [queue EXCEPT ![p] = StartCalls(StoreNow(p))]
  /\ spc' = [spc EXCEPT ![p] = "call"]
  /\ UNCHANGED <<sideVars, launcherVars, monitorVars, file, buffer, calls>>

\* one loop iteration of monitor p up to its first status write
StorePoll(p) ==
  /\ spc[p] = "poll"
  /\ PollsOf(p) < MaxPolls
  /\ \E s \in StoreSnapshots : queue' = [queue EXCEPT ![p] = IterationCalls(s)]
  /\ spc' = [spc EXCEPT ![p] = "call"]
  /\ UNCHANGED <<sideVars, launcherVars, monitorVars, file, buffer, calls>>

\* updateSharedStatus up to the parse: existsSync, readFileSync, JSON.parse
StoreRead(p) ==
  /\ spc[p] = "call"
  /\ IF ReadThrows(file)
     THEN Return(p)
     ELSE /\ buffer' = [buffer EXCEPT ![p] = ReadData(file)]
          /\ spc' = [spc EXCEPT ![p] = "write"]
          /\ UNCHANGED <<queue, calls>>
  /\ UNCHANGED <<sideVars, launcherVars, monitorVars, file>>

\* writeFileSync opens the file, which truncates it
StoreTruncate(p) ==
  /\ spc[p] = "write"
  /\ file' = EmptyFile
  /\ spc' = [spc EXCEPT ![p] = "flush"]
  /\ UNCHANGED <<sideVars, launcherVars, monitorVars, queue, buffer, calls>>

\* writeFileSync writes JSON.stringify(data) of the array as modified
StoreWrite(p) ==
  /\ spc[p] = "flush"
  /\ file' = JsonFile(Modify(buffer[p], StoreConfig(p), Head(queue[p]).updates, StoreNow(p)))
  /\ Return(p)
  /\ UNCHANGED <<sideVars, launcherVars, monitorVars>>

StoreNext ==
  \E p \in ProductIds :
    \/ StoreStart(p) \/ StorePoll(p) \/ StoreRead(p) \/ StoreTruncate(p) \/ StoreWrite(p)

StoreSpec == StoreInit /\ [][StoreNext]_vars

(***************************************************************************)
(* The dashboard beside the monitors of a batch                            *)
(***************************************************************************)
\* the errors a request of these monitors ends with
StoreErrors == {<<"fetch failed">>, <<"API", "error:", "401", "-">>}

\* the write of the catch block: an authorization error ends the monitor, any
\* other error is followed by the wait and the next iteration
ErrorCalls(m) ==
  << [kind |-> IF IsAuthError(m) THEN "terminal" ELSE "error",
      updates |-> Obj([status |-> "error", error |-> m], {})] >>

\* one loop iteration of monitor p whose checkStatus throws
StorePollError(p) ==
  /\ spc[p] = "poll"
  /\ PollsOf(p) < MaxPolls
  /\ \E m \in StoreErrors : queue' = [queue EXCEPT ![p] = ErrorCalls(m)]
  /\ spc' = [spc EXCEPT ![p] = "call"]
  /\ UNCHANGED <<sideVars, launcherVars, monitorVars, file, buffer, calls>>

\* the statuses the dashboard takes for finished
FinishedStatuses == {"success", "failed", "error", "timeout", "warning"}

\* data.every(d => [...].includes(d.status))
allFinished(data) == \A i \in 1..Len(data) : data[i].status \in FinishedStatuses

\* data.filter(d => d.status === 'failed' || d.status === 'error').length
failedCount(data) ==
  Cardinality({i \in 1..Len(data) : data[i].status = "failed" \/ data[i].status = "error"})

\* updateDisplay: nothing happens without a file, on empty or unparseable
\* content and on an empty array; otherwise the batch is declared finished,
\* once, when every entry is, and the exit is scheduled with the code
\* failed > 0 ? 1 : 0 computed from the data just read
UpdateDisplay ==
  /\ IF file.kind = "json" /\ Len(file.data) > 0 /\ allFinished(file.data) /\ ~hasFinished
     THEN /\ hasFinished' = TRUE
          /\ dashExit' = IF failedCount(file.data) > 0 THEN 1 ELSE 0
     ELSE UNCHANGED <<hasFinished, dashExit>>
  /\ UNCHANGED <<notifier, snapshot, verdict, storeVars, launcherVars, monitorVars, file>>

\* the loop of monitor p has used up its attempts (MaxPolls of them here): the
\* timeout write
StoreTimeout(p) ==
  /\ spc[p] = "poll"
  /\ ~(PollsOf(p) < MaxPolls)
  /\ queue' = [queue EXCEPT ![p] =
        << [kind |-> "terminal",
            updates |-> Obj([status |-> "timeout", progress |-> calculateProgress(<<>>)], {})] >>]
  /\ spc' = [spc EXCEPT ![p] = "call"]
  /\ UNCHANGED <<sideVars, launcherVars, monitorVars, file, buffer, calls>>

\* update-all has written the initial status file before it starts the
\* monitors and the dashboard
DashInit == StoreInit /\ file = JsonFile(initialStatus)

DashNext ==
  \/ StoreNext
  \/ \E p \in ProductIds : StorePollError(p)
  \/ \E p \in ProductIds : StoreTimeout(p)
  \/ UpdateDisplay

DashSpec == DashInit /\ [][DashNext]_vars

(***************************************************************************)
(* checkStatus on its own, answered with any JSON value                    *)
(***************************************************************************)
\* the JSON values a body can parse to that are no object literal
OtherJsonValues == {"null", "zero", "number", "emptystring", "string", "false", "true"}

\* everything one request of checkStatus can come back with
CheckResponses ==
  Responses
  \cup {[kind |-> "json", value |-> v] : v \in OtherJsonValues}
  \cup {[kind |-> "json", value |-> "array", data |-> <<>>]}

CheckInit ==
  /\ pc = "request"
  /\ attempt = 0
  /\ requests = 0
  /\ status = <<>>
  /\ lastError = <<>>
  /\ response = <<>>
  /\ cmd = "deploy"
  /\ todo = <<>>
  /\ launcher = "exit0"
  /\ git = [committed |-> TRUE, tagged |-> FALSE, pushed |-> FALSE]
  /\ uploaded = TRUE
  /\ config = MonitorConfig("deploy")
  /\ attempts = 1
  /\ file = NoFile
  /\ notes = <<>>
  /\ terminal = "none"
  /\ exitCode = -1
  /\ spc = <<>>
  /\ queue = <<>>
  /\ buffer = <<>>
  /\ calls = <<>>
  /\ notifier = "works"
  /\ hasFinished = FALSE
  /\ dashExit = -1
  /\ snapshot = <<>>
  /\ verdict = <<>>

\* one pass of checkStatus's for loop: return data, continue after the wait, or throw
CheckRequest ==
  /\ pc = "request"
  /\ attempt < maxRetries
  /\ requests' = requests + 1
  /\ \E r \in CheckResponses :
       /\ response' = r
       /\ IF IsData(r)
          THEN status' = r.data /\ pc' = "returned" /\ UNCHANGED lastError
          ELSE IF attempt < maxRetries - 1 /\ IsRetryable(ErrorMessage(r))
          THEN pc' = "backoff" /\ UNCHANGED <<status, lastError>>
          ELSE lastError' = ErrorMessage(r) /\ pc' = "thrown" /\ UNCHANGED status
  /\ UNCHANGED <<sideVars, storeVars, launcherVars, attempts, attempt, file, notes, terminal, exitCode>>

CheckNext == CheckRequest \/ Backoff

CheckSpec == CheckInit /\ [][CheckNext]_vars

(***************************************************************************)
(* The status interpreter on its own: each function applied to a snapshot  *)
(***************************************************************************)
\* longest test_runs mapping handed to the interpreter functions
MaxTestRuns == 3

\* the statuses a test run is reported with
InterpRunStatuses == {"pending", "running", "queued", "success", "failed", "error", "cancelled"}

\* the top-level statuses of a deployment
InterpTopStatuses == {"processing", "failed", "error"}

\* the snapshots the functions are applied to
InterpSnapshots ==
  {[status |-> v] : v \in InterpTopStatuses}
  \cup {[status |-> v, test_runs |-> TestRuns(ss)] :
          v \in InterpTopStatuses,
          ss \in UNION {[1..k -> InterpRunStatuses] : k \in 0..MaxTestRuns}}

InterpInit ==
  /\ snapshot \in InterpSnapshots
  /\ verdict = <<>>
  /\ notifier = "works"
  /\ hasFinished = FALSE
  /\ dashExit = -1
  /\ file = NoFile
  /\ spc = <<>>
  /\ queue = <<>>
  /\ buffer = <<>>
  /\ calls = <<>>
  /\ cmd = "deploy"
  /\ todo = <<>>
  /\ launcher = "exit0"
  /\ git = [committed |-> TRUE, tagged |-> FALSE, pushed |-> FALSE]
  /\ uploaded = TRUE
  /\ config = MonitorConfig("deploy")
  /\ pc = "idle"
  /\ attempts = 0
  /\ attempt = 0
  /\ requests = 0
  /\ status = <<>>
  /\ lastError = <<>>
  /\ response = <<>>
  /\ notes = <<>>
  /\ terminal = "none"
  /\ exitCode = -1

\* the call f(snapshot) returns r
Returned(f, r) ==
  /\ f \notin DOMAIN verdict
  /\ verdict' = (f :> r) @@ verdict
  /\ UNCHANGED <<snapshot, notifier, hasFinished, dashExit, file, storeVars, launcherVars, monitorVars>>

CallCalculateProgress == Returned("calculateProgress", calculateProgress(snapshot))

CallAreTestsComplete == Returned("areTestsComplete", areTestsComplete(snapshot))

CallHasFailedEarly == Returned("hasFailedEarly", hasFailedEarly(snapshot))

CallDidTestsPass == Returned("didTestsPass", didTestsPass(snapshot))

CallGetFailedTests == Returned("getFailedTests", getFailedTests(snapshot))

InterpNext ==
  \/ CallCalculateProgress \/ CallAreTestsComplete \/ CallHasFailedEarly
  \/ CallDidTestsPass \/ CallGetFailedTests

InterpSpec == InterpInit /\ [][InterpNext]_vars

(***************************************************************************)
(* calculateProgress and areTestsComplete on long test_runs mappings       *)
(***************************************************************************)
\* longest test_runs mapping, and most unfinished runs in it
MaxManyRuns == 200
MaxUnfinished == 2

\* n runs of which the last k have the unfinished status v.  Only the status
\* of a run is read by the two functions.  For these sizes and counts the
\* double arithmetic of (completed / n) * 100 yields the exact quotient's
\* rounding, as RoundPercent computes it.
ManyRuns(n, k, v) == [i \in 1..n |-> [status |-> IF i <= n - k THEN "success" ELSE v]]

ManyRunsSnapshots ==
  {[status |-> "processing", test_runs |-> ManyRuns(n, k, v)] :
     n \in 1..MaxManyRuns, k \in 0..MaxUnfinished, v \in {"pending", "running", "queued"}}

ManyRunsInit ==
  /\ snapshot \in ManyRunsSnapshots
  /\ verdict = <<>>
  /\ notifier = "works"
  /\ hasFinished = FALSE
  /\ dashExit = -1
  /\ file = NoFile
  /\ spc = <<>>
  /\ queue = <<>>
  /\ buffer = <<>>
  /\ calls = <<>>
  /\ cmd = "deploy"
  /\ todo = <<>>
  /\ launcher = "exit0"
  /\ git = [committed |-> TRUE, tagged |-> FALSE, pushed |-> FALSE]
  /\ uploaded = TRUE
  /\ config = MonitorConfig("deploy")
  /\ pc = "idle"
  /\ attempts = 0
  /\ attempt = 0
  /\ requests = 0
  /\ status = <<>>
  /\ lastError = <<>>
  /\ response = <<>>
  /\ notes = <<>>
  /\ terminal = "none"
  /\ exitCode = -1

ManyRunsNext == CallCalculateProgress \/ CallAreTestsComplete

ManyRunsSpec == ManyRunsInit /\ [][ManyRunsNext]_vars

(***************************************************************************)
(* Properties                                                              *)
(***************************************************************************)
\* the monitor's own entry in the status file
Entry == EntryOf(file, config.productId)

TerminalPhase == {"notify", "speak", "open", "exit", "exited"}

\* the snapshot names a failure: top-level or in some test run
NamesFailure(s) ==
  \/ s.status \in {"failed", "error"}
  \/ /\ "test_runs" \in DOMAIN s
     /\ \E i \in 1..Len(s.test_runs) : s.test_runs[i].status \in {"failed", "error"}

\* a non-empty test_runs mapping in which every run is 'success'
AllRunsSucceeded(s) ==
  /\ "test_runs" \in DOMAIN s
  /\ Len(s.test_runs) > 0
  /\ \A i \in 1..Len(s.test_runs) : s.test_runs[i].status = "success"

\* C1: the monitor exits with code 0 only if the snapshot fetched in its final
\* iteration has a non-empty test_runs mapping whose runs are all 'success' and
\* names no failure; an error iteration or the timeout never yields exit code 0.
C1_ExitZeroOnlyOnAllSuccess ==
  exitCode = 0 =>
    /\ status # <<>>
    /\ AllRunsSucceeded(status)
    /\ ~NamesFailure(status)
    /\ lastError = <<>>
    /\ terminal = "succeeded"

C1_Witness ==
  /\ pc = "exited"
  /\ exitCode = 0
  /\ Len(status.test_runs) = 2
  /\ attempts > 1

\* C2: in every command a git tag exists, and anything is pushed, only after the
\* upload and after the monitor has seen the deployment succeed.
C2_TagOnlyAfterConfirmedSuccess ==
  (git.tagged \/ git.pushed) => (uploaded /\ terminal = "succeeded")

C5_EarlyFailureTerminatesAtOnce ==
  (status # <<>> /\ NamesFailure(status) /\ pc # "classify") =>
    /\ pc \in TerminalPhase
    /\ terminal = "failed-early"
    /\ pc = "exited" => exitCode = 1
    /\ config.statusFile =>
         /\ Entry.status = "failed"
         /\ Entry.failedTests = getFailedTests(status)
         /\ Entry.lastUpdate = attempts

C5_Witness ==
  /\ pc = "exited"
  /\ exitCode = 1
  /\ config.statusFile
  /\ terminal = "failed-early"
  /\ status.status = "processing"
  /\ Len(status.test_runs) = 2
  /\ status.test_runs[1].status = "pending"
  /\ status.test_runs[2].status = "failed"
  /\ Len(Entry.failedTests) = 2

\* C6: the monitor never starts a 61st poll iteration; the timeout transition
\* is taken exactly when the loop is reached after 60 iterations, it leaves
\* status 'timeout' in the entry and ends in exit code 2, and exit code 2 has
\* no other origin.
C6_TimeoutAfterSixtyAttempts ==
  /\ attempts <= 60
  /\ pc = "loop" => (ENABLED Timeout <=> attempts = 60)
  /\ pc = "loop" => (ENABLED BeginAttempt <=> attempts < 60)
  /\ terminal = "timed-out" =>
       /\ attempts = 60
       /\ pc \in TerminalPhase
       /\ pc = "exited" => exitCode = 2
       /\ config.statusFile => Entry.status = "timeout"
  /\ exitCode = 2 => terminal = "timed-out"

C6_Witness ==
  /\ pc = "exited"
  /\ exitCode = 2
  /\ config.statusFile
  /\ Entry.status = "timeout"

\* where the monitor stands inside one poll iteration, counted down
StepsLeft ==
  CASE pc = "idle" -> 32
    [] pc = "start" -> 31
    [] pc = "request" -> 20 - 2 * attempt
    [] pc = "backoff" -> 19 - 2 * attempt
    [] pc = "classify" -> 10
    [] pc = "sleep" -> 9
    [] pc = "loop" -> 8
    [] pc = "notify" -> 4
    [] pc = "speak" -> 3
    [] pc = "open" -> 2
    [] pc = "exit" -> 1
    [] pc = "exited" -> 0

\* a bound on the steps the monitor can still take
Rank == (MAX_ATTEMPTS - attempts) * 32 + StepsLeft

\* C7: every monitor run ends in a terminal state after at most 60 poll
\* iterations: the iteration count never passes 60 and counts error iterations,
\* one checkStatus call issues at most 3 requests (so at most 180 in a run) and
\* its retries leave the iteration count alone, the monitor is never stuck
\* before it has exited, and every step brings it closer to its exit.
C7_TerminatesWithinSixtyIterations ==
  /\ [](/\ attempts \in 0..60
        /\ requests \in 0..3
        /\ Rank >= 0
        /\ pc \in {"request", "backoff"} => requests = attempt + IF pc = "backoff" THEN 1 ELSE 0
        /\ lastError # <<>> => attempts >= 1
        /\ pc \in {"idle", "exited"} \/ ENABLED MonitorStep
        /\ pc = "exited" => terminal \in {"succeeded", "failed-early", "timed-out", "auth-error"})
  /\ [][pc # "idle" => Rank' < Rank]_vars
  /\ [][(pc = "backoff" \/ pc' = "backoff") => attempts' = attempts]_vars

C7_Witness ==
  /\ pc = "exited"
  /\ terminal = "timed-out"
  /\ lastError # <<>>
  /\ requests = 3

\* C8: with a status file, the status the monitor leaves in its entry matches
\* its exit: 0 leaves 'success' with progress 100, 1 by early failure leaves
\* 'failed', 1 by an auth error leaves 'error', 2 leaves 'timeout'.
C8_FinalStatusMatchesExit ==
  (pc = "exited" /\ config.statusFile) =>
    /\ exitCode = 0 => (Entry.status = "success" /\ Entry.progress = 100)
    /\ (exitCode = 1 /\ terminal = "failed-early") => Entry.status = "failed"
    /\ (exitCode = 1 /\ terminal = "auth-error") => Entry.status = "error"
    /\ exitCode = 2 => Entry.status = "timeout"
    /\ exitCode = 1 => terminal \in {"failed-early", "auth-error"}
    /\ exitCode \in {0, 1, 2}

C8_Witness ==
  /\ pc = "exited"
  /\ config.statusFile
  /\ exitCode = 1
  /\ terminal = "auth-error"
  /\ Entry.status = "error"
  /\ "testRuns" \in DOMAIN Entry

\* the latest request of the iteration was answered with HTTP 401 or 403
AnsweredUnauthorized ==
  /\ response # <<>>
  /\ response.kind = "http"
  /\ response.code \in {401, 403}

\* C9: after a request is answered with HTTP 401 or 403 the client does not
\* retry it; the monitor's entry has status 'error' with the message and the
\* monitor is in its auth-error terminal transition, which notifies and exits
\* with code 1 without sleeping or polling again.
C9_UnauthorizedStopsWithoutRetry ==
  AnsweredUnauthorized =>
    /\ requests = 1
    /\ pc \in TerminalPhase
    /\ terminal = "auth-error"
    /\ lastError = ErrorMessage(response)
    /\ config.statusFile => (Entry.status = "error" /\ Entry.error = lastError)
    /\ pc \in {"exit", "exited"} => (Len(notes) = 1 /\ notes[1].title = <<"Deploy", "Auth", "Error">>)
    /\ pc = "exited" => exitCode = 1

\* C10: a poll failure that is no HTTP 401/403 response never ends the monitor:
\* the iteration leaves status 'error' with the message in the entry and goes
\* on to sleep and to the next poll.
C10_OtherFailuresKeepPolling ==
  (lastError # <<>> /\ ~AnsweredUnauthorized) =>
    /\ terminal \in {"none", "timed-out"}
    /\ terminal = "none" => pc \in {"sleep", "loop"}
    /\ (config.statusFile /\ terminal = "none") => (Entry.status = "error" /\ Entry.error = lastError)

\* C11: one checkStatus call whose requests all fail with a connection-refused
\* network error makes exactly 3 requests: the first and the second failure are
\* followed by the 5 second wait and the next request, the third by no wait but
\* by the error reaching the caller; a request that succeeds (also the second or
\* the third) is returned at once, and no request follows a return or a throw
\* within the iteration.
C11_NetworkFailureRetriedThreeTimes ==
  /\ [][requests' = requests + 1 =>
         /\ pc = "request"
         /\ requests' = attempt + 1
         /\ requests' <= 3
         /\ response'.kind = "reject" =>
              IF requests' < 3
              THEN pc' = "backoff" /\ lastError' = <<>> /\ file' = file
              ELSE pc' = "sleep" /\ lastError' = response'.message
         /\ (response'.kind = "json" /\ response'.value = "object") =>
              (pc' = "classify" /\ status' = response'.data /\ lastError' = <<>>)]_vars
  /\ [][pc = "backoff" => (pc' = "request" /\ attempt' = attempt + 1 /\ requests' = requests)]_vars
  /\ [][pc' = "backoff" => (pc = "request" /\ requests' \in {1, 2})]_vars
  /\ [][(pc = "classify" \/ pc = "sleep") => requests' = requests]_vars

C11_Witness ==
  /\ pc = "sleep"
  /\ requests = 3
  /\ response.kind = "reject"
  /\ lastError = response.message

\* the latest request was answered with a non-success HTTP status, or with a
\* body that is unparseable or no object
HttpOrMalformed ==
  /\ response # <<>>
  /\ \/ response.kind \in {"http", "unparseable"}
     \/ response.kind = "json" /\ response.value # "object"

\* C12: a request answered with a non-success HTTP status (whatever the body
\* holds) or with a malformed body is never retried: no wait follows it, the
\* error reaches the caller at once, and as the first request of a call it
\* stays the only one.
C12_HttpAndMalformedNeverRetried ==
  HttpOrMalformed =>
    /\ pc # "backoff"
    /\ lastError = ErrorMessage(response)
    /\ attempt = 0 => requests = 1

\* the calls of one kind among the notifier calls made so far
CallsOf(kind) == {i \in 1..Len(notes) : notes[i].call = kind}

\* C13: a monitor run issues no notification before its terminal transition,
\* exactly one in it, and speaks and opens a URL at most once each, after the
\* notification.
C13_SideEffectsOncePerRun ==
  /\ pc \notin TerminalPhase => notes = <<>>
  /\ terminal = "none" => notes = <<>>
  /\ pc = "notify" => notes = <<>>
  /\ pc \in {"speak", "open", "exit", "exited"} => CallsOf("notify") = {1}
  /\ Cardinality(CallsOf("speak")) <= 1
  /\ Cardinality(CallsOf("openUrl")) <= 1
  /\ pc = "exited" => Len(notes) \in 1..3

C13_Witness ==
  /\ pc = "exited"
  /\ attempts > 1
  /\ Len(notes) = 3
  /\ notes[2].call = "speak"
  /\ notes[3].call = "openUrl"

\* C14: with isBatchDeploy the monitor never speaks and never opens a URL,
\* whichever terminal transition it takes.
C14_BatchNeverSpeaksOrOpens ==
  config.isBatchDeploy =>
    /\ CallsOf("speak") = {}
    /\ CallsOf("openUrl") = {}
    /\ pc \notin {"speak", "open"}

C14_Witness ==
  /\ config.isBatchDeploy
  /\ pc = "exited"
  /\ terminal = "succeeded"
  /\ status.test_runs[1].result_url = "https://qit/1"
  /\ Len(notes) = 1

\* the words of label occur in text, in order and next to each other
Embeds(text, label) ==
  \E i \in 1..(Len(text) - Len(label) + 1) : SubSeq(text, i, i + Len(label) - 1) = label

\* C15: with isBatchDeploy every notification (success, early failure, timeout,
\* auth error) carries "<batchIndex+1>/<batchTotal>" in its title or message.
C15_BatchNotificationsCarryIndex ==
  config.isBatchDeploy =>
    \A i \in CallsOf("notify") :
      LET label == <<ToString(config.batchIndex + 1), "/", ToString(config.batchTotal)>>
      IN Embeds(notes[i].title, label) \/ Embeds(notes[i].message, label)

\* the places of the file's array that hold an entry of productId p
EntriesOf(p) ==
  IF file.kind = "json" THEN {i \in 1..Len(file.data) : file.data[i].productId = p} ELSE {}

\* C16: whenever the status file holds an array, it holds at most one entry per
\* productId, and exactly one for every productId whose monitor has written its
\* entry, however the monitors' reads and writes interleave.
C16_OneEntryPerProductId ==
  file.kind = "json" =>
    \A p \in ProductIds :
      /\ Cardinality(EntriesOf(p)) <= 1
      /\ calls[p] # <<>> => Cardinality(EntriesOf(p)) = 1

\* C17: the array a monitor is about to write back holds, for every other
\* productId, exactly the entry the file holds at that moment: its update
\* changes no other entry, also when another monitor updated the file after
\* this monitor read it.
C17_UpdateLeavesOtherEntriesAlone ==
  \A p \in ProductIds :
    (spc[p] = "write" /\ file.kind = "json") =>
      LET out == JsonFile(Modify(buffer[p], StoreConfig(p), Head(queue[p]).updates, StoreNow(p)))
      IN \A q \in ProductIds \ {p} : EntryOf(out, q) = EntryOf(file, q)

\* C18: no lost update outlives the monitors: once every monitor has exited,
\* each monitor's entry is in the file with the status of that monitor's last
\* write.
C18_LostUpdatesAreRepaired ==
  (file.kind = "json" /\ \A p \in ProductIds : spc[p] = "exited") =>
    \A p \in ProductIds :
      /\ EntryOf(file, p) # <<>>
      /\ EntryOf(file, p).status = calls[p][Len(calls[p])].updates.set.status

\* C19: an update on a file whose content is no valid JSON returns leaving a
\* JSON array in the file whose only entry is the caller's new entry.
C19_InvalidContentTreatedAsEmpty ==
  [][(\A p \in ProductIds :
        (file.kind = "invalid" /\ Len(calls'[p]) > Len(calls[p])) =>
          /\ file'.kind = "json"
          /\ Len(file'.data) = 1
          /\ file'.data[1].productId = p
          /\ file'.data[1].status = Head(queue[p]).updates.set.status)]_vars

\* C20: after two updates in a row with the same productId, not interleaved
\* with another monitor's, the file holds one entry for it: every field the
\* later update gives has the later value, a field the later update gives as
\* undefined is absent, every field only the earlier update gives is kept, and
\* lastUpdate is the time of the later update.
C20_SecondUpdateMergesIntoEntry ==
  \A p \in ProductIds :
    (/\ file.kind = "json"
     /\ Len(calls[p]) >= 2
     /\ \A q \in ProductIds \ {p} : spc[q] = "start")
    =>
      LET n == Len(calls[p])
          u1 == calls[p][n - 1].updates
          u2 == calls[p][n].updates
          e == EntryOf(file, p)
      IN /\ Cardinality(EntriesOf(p)) = 1
         /\ e.productId = p
         /\ \A k \in DOMAIN u2.set : e[k] = u2.set[k]
         /\ \A k \in u2.undefined : k \notin DOMAIN e
         /\ \A k \in DOMAIN u1.set \ (DOMAIN u2.set \cup u2.undefined) : e[k] = u1.set[k]
         /\ e.lastUpdate = n

C20_Witness ==
  /\ file.kind = "json"
  /\ Len(file.data) = 1
  /\ spc["p2"] = "start"
  /\ Len(calls["p1"]) = 2
  /\ calls["p1"][1].kind = "queued"
  /\ calls["p1"][2].kind = "poll"
  /\ EntryOf(file, "p1") # <<>>
  /\ "testRuns" \in DOMAIN EntryOf(file, "p1")
  /\ EntryOf(file, "p1").startTime = 1
  /\ EntryOf(file, "p1").status = "processing"
  /\ Len(EntryOf(file, "p1").testRuns) = 1


\* the places of the snapshot's test runs whose status is outside / inside a set
RunsOutside(set) ==
  IF "test_runs" \in DOMAIN snapshot
  THEN {i \in 1..Len(snapshot.test_runs) : snapshot.test_runs[i].status \notin set}
  ELSE {}

RunsWithin(set) ==
  IF "test_runs" \in DOMAIN snapshot
  THEN {i \in 1..Len(snapshot.test_runs) : snapshot.test_runs[i].status \in set}
  ELSE {}

\* C27: calculateProgress returns 5 without test_runs, 10 for an empty mapping,
\* and otherwise the integer nearest to 100*C/N (a half rounds up), N being the
\* number of runs and C the number outside {pending, running, queued}.
C27_ProgressIsRoundedShare ==
  "calculateProgress" \in DOMAIN verdict =>
    LET r == verdict["calculateProgress"]
        N == Len(snapshot.test_runs)
        C == Cardinality(RunsOutside({"pending", "running", "queued"}))
    IN IF "test_runs" \notin DOMAIN snapshot THEN r = 5
       ELSE IF N = 0 THEN r = 10
       ELSE 2 * N * r <= 200 * C + N /\ 200 * C + N < 2 * N * (r + 1)

C27_Witness ==
  /\ "calculateProgress" \in DOMAIN verdict
  /\ "test_runs" \in DOMAIN snapshot
  /\ Len(snapshot.test_runs) = 3
  /\ Cardinality(RunsOutside({"pending", "running", "queued"})) = 2
  /\ verdict["calculateProgress"] = 67

\* C28: areTestsComplete is true exactly when test_runs is present, non-empty
\* and holds no run whose status is pending, running or queued.
C28_CompleteIffNoRunPending ==
  "areTestsComplete" \in DOMAIN verdict =>
    (verdict["areTestsComplete"] <=>
       /\ "test_runs" \in DOMAIN snapshot
       /\ Len(snapshot.test_runs) > 0
       /\ RunsWithin({"pending", "running", "queued"}) = {})

C28_Witness ==
  /\ "areTestsComplete" \in DOMAIN verdict
  /\ ~verdict["areTestsComplete"]
  /\ "test_runs" \in DOMAIN snapshot
  /\ Len(snapshot.test_runs) = 2
  /\ snapshot.test_runs[1].status = "success"
  /\ snapshot.test_runs[2].status = "running"

\* C29: hasFailedEarly is true exactly when the top-level status is 'failed' or
\* 'error' or some test run's status is 'failed' or 'error'.
C29_FailedEarlyIffFailureNamed ==
  "hasFailedEarly" \in DOMAIN verdict =>
    (verdict["hasFailedEarly"] <=>
       \/ snapshot.status \in {"failed", "error"}
       \/ RunsWithin({"failed", "error"}) # {})

C29_Witness ==
  /\ "hasFailedEarly" \in DOMAIN verdict
  /\ verdict["hasFailedEarly"]
  /\ snapshot.status = "failed"
  /\ "test_runs" \in DOMAIN snapshot
  /\ Len(snapshot.test_runs) = 2
  /\ RunsOutside({"pending"}) = {}

\* C30: getFailedTests returns one {type, status, url} record per test run whose
\* status is not 'success', in the order of the mapping (none without
\* test_runs), and didTestsPass is true exactly when test_runs is present and
\* that list is empty.
C30_FailedTestsAreTheNonSuccessRuns ==
  /\ "getFailedTests" \in DOMAIN verdict =>
       LET failed == verdict["getFailedTests"]
           ns == RunsOutside({"success"})
       IN /\ Len(failed) = Cardinality(ns)
          /\ \A k \in 1..Len(failed) :
               LET i == CHOOSE j \in ns : Cardinality({h \in ns : h <= j}) = k
                   run == snapshot.test_runs[i]
               IN failed[k] = [type |-> run.test_type, status |-> run.status, url |-> run.result_url]
  /\ {"getFailedTests", "didTestsPass"} \subseteq DOMAIN verdict =>
       (verdict["didTestsPass"] <=>
          ("test_runs" \in DOMAIN snapshot /\ verdict["getFailedTests"] = <<>>))

C30_Witness ==
  /\ {"getFailedTests", "didTestsPass"} \subseteq DOMAIN verdict
  /\ ~verdict["didTestsPass"]
  /\ "test_runs" \in DOMAIN snapshot
  /\ Len(snapshot.test_runs) = 3
  /\ snapshot.test_runs[1].status = "cancelled"
  /\ snapshot.test_runs[2].status = "success"
  /\ snapshot.test_runs[3].status = "pending"
  /\ Len(verdict["getFailedTests"]) = 2
  /\ verdict["getFailedTests"][2].type = "e2e"


\* C21: an update on a path where no file exists (the monitor read nothing and
\* no other monitor has touched the path) leaves a file holding a one-element
\* array: its entry has the monitor's productId, slug and version, a startTime
\* and every field of the update.
C21_UpdateCreatesFileWithOneEntry ==
  /\ [](\A p \in ProductIds : (spc[p] = "write" /\ file = NoFile) => buffer[p] = <<>>)
  /\ [][(\A p \in ProductIds :
          (/\ spc[p] = "flush"
           /\ spc'[p] # "flush"
           /\ buffer[p] = <<>>
           /\ \A q \in ProductIds \ {p} : spc[q] = "start")
          =>
            LET u == Head(queue[p]).updates
            IN /\ file'.kind = "json"
               /\ Len(file'.data) = 1
               /\ {"productId", "slug", "version", "startTime"} \subseteq DOMAIN file'.data[1]
               /\ file'.data[1].productId = p
               /\ file'.data[1].slug = StoreConfig(p).slug
               /\ file'.data[1].version = StoreConfig(p).version
               /\ \A k \in DOMAIN u.set : file'.data[1][k] = u.set[k])]_vars

C21_Witness ==
  /\ file.kind = "json"
  /\ Len(file.data) = 1
  /\ spc["p2"] = "start"
  /\ spc["p1"] = "poll"
  /\ Len(calls["p1"]) = 1
  /\ file.data[1].productId = "p1"
  /\ file.data[1].slug = "plugin-one"
  /\ file.data[1].status = "queued"


\* the exit code the responses alone call for: 0 after a snapshot whose runs all
\* succeeded, 1 after a snapshot naming a failure or an authorization error,
\* 2 when the attempts ran out
ExitCodeFor(r) ==
  IF IsData(r)
  THEN (IF NamesFailure(r.data) THEN 1 ELSE IF AllRunsSucceeded(r.data) THEN 0 ELSE 2)
  ELSE (IF Includes(ErrorMessage(r), "401") \/ Includes(ErrorMessage(r), "403") THEN 1 ELSE 2)

\* C22: a failing status store (unreadable file, unparseable or non-array
\* content, write error) never changes what the monitor does: whatever the file,
\* what follows a request depends on its response alone (a snapshot is
\* classified, a failure is retried, slept on or ends the run, and the only
\* error the monitor ever records is the remote one), the monitor is never
\* stopped before its exit, it notifies once, and it exits with the code its
\* last response calls for.
C22_StoreFailuresNeverChangeTheRun ==
  /\ [](pc \notin {"idle", "exited"} => ENABLED MonitorStep)
  /\ [](lastError # <<>> => (~IsData(response) /\ lastError = ErrorMessage(response)))
  /\ [](pc = "exited" =>
         /\ exitCode = ExitCodeFor(response)
         /\ Len(SelectSeq(notes, LAMBDA n : n.call = "notify")) = 1
         /\ notes[1].call = "notify")
  /\ [][(pc = "request" /\ requests' # requests) =>
          IF IsData(response')
          THEN /\ pc' = "classify"
               /\ status' = response'.data
               /\ lastError' = lastError
          ELSE /\ status' = status
               /\ \/ pc' = "backoff" /\ attempt < maxRetries - 1 /\ lastError' = lastError
                  \/ /\ lastError' = ErrorMessage(response')
                     /\ pc' = IF Includes(lastError', "401") \/ Includes(lastError', "403")
                              THEN "notify" ELSE "sleep"]_vars

\* a monitor whose status file holds no JSON has polled twice, notified and
\* exited with code 0, the file as it found it
C22_Witness ==
  /\ config.statusFile
  /\ file = InvalidFile
  /\ pc = "exited"
  /\ exitCode = 0
  /\ attempts = 2
  /\ Len(notes) = 1
  /\ notes[1].call = "notify"


\* C23: a monitor without a statusFile never touches a file (no file appears
\* and none is changed by any of its steps, whatever the update), and it still
\* runs on to one of its four terminal states and exits with that state's code.
C23_NoStatusFileNoFileTouched ==
  /\ [][~config.statusFile => file' = file]_vars
  /\ [](~config.statusFile =>
         /\ file = NoFile
         /\ pc \notin {"idle", "exited"} => ENABLED MonitorStep
         /\ pc = "exited" =>
              \/ terminal = "succeeded" /\ exitCode = 0
              \/ terminal \in {"failed-early", "auth-error"} /\ exitCode = 1
              \/ terminal = "timed-out" /\ exitCode = 2)

\* a standalone monitor has polled three times, seen the last run succeed and
\* exited with code 0, and there is still no file
C23_Witness ==
  /\ ~config.statusFile
  /\ file = NoFile
  /\ pc = "exited"
  /\ terminal = "succeeded"
  /\ exitCode = 0
  /\ attempts = 3


\* C25: the iterations of one monitor follow one another: a request is issued
\* only by the one iteration that is running and one at a time, the next
\* iteration begins only after the wait that ends the one before (or at the
\* start), the status file is written only by the running iteration before its
\* wait, and neither the wait nor the beginning of an iteration writes it.
C25_IterationsAreSequential ==
  /\ [][(requests' > requests) => (pc = "request" /\ requests' = requests + 1)]_vars
  /\ [][(attempts' # attempts) =>
          (/\ pc = "loop" /\ pc' = "request"
           /\ attempts' = attempts + 1
           /\ requests' = 0
           /\ file' = file)]_vars
  /\ [][(pc' = "loop" /\ pc # "loop") => (pc = "start" \/ pc = "sleep")]_vars
  /\ [][(pc = "sleep") => (pc' = "loop" /\ file' = file /\ requests' = requests)]_vars
  /\ [][(file' # file) =>
          (/\ pc = "start" \/ pc = "request" \/ pc = "classify" \/ pc = "loop"
           /\ pc' # "request")]_vars

\* the second iteration is about to send its first request; the first
\* iteration's poll update is in the file
C25_Witness ==
  /\ pc = "request"
  /\ attempts = 2
  /\ requests = 0
  /\ file.kind = "json"
  /\ Entry # <<>>
  /\ Entry.status = "processing"
  /\ Entry.progress = 50


\* the notifier calls a terminal transition makes, in order
CallsDue ==
  <<"notify">>
  \o (IF ~config.isBatchDeploy /\ terminal \in {"failed-early", "succeeded"}
      THEN <<"speak">> \o (IF UrlToOpen(terminal, status) # <<>> THEN <<"openUrl">> ELSE <<>>)
      ELSE <<>>)

\* C26: a notifier call that fails is swallowed: the step that made it leaves
\* the status file, the terminal state and the exit code as they were and hands
\* over to the next step of the terminal transition, so that the monitor exits
\* with the code of its terminal state after making every call that was due.
C26_NotifierFailuresAreSwallowed ==
  /\ [][(Len(notes') > Len(notes) /\ notes'[Len(notes')].failed) =>
          (/\ file' = file
           /\ terminal' = terminal
           /\ exitCode' = exitCode
           /\ Len(notes') <= Len(CallsDue)
           /\ notes'[Len(notes')].call = CallsDue[Len(notes')]
           /\ pc' = IF Len(notes') = Len(CallsDue) THEN "exit"
                    ELSE IF CallsDue[Len(notes') + 1] = "speak" THEN "speak" ELSE "open")]_vars
  /\ []((notifier = "fails" /\ pc = "exited") =>
         /\ Len(notes) = Len(CallsDue)
         /\ \/ terminal = "succeeded" /\ exitCode = 0
            \/ terminal \in {"failed-early", "auth-error"} /\ exitCode = 1
            \/ terminal = "timed-out" /\ exitCode = 2)

\* notify, speak and openUrl have all failed after an early failure, and the
\* monitor has exited with code 1
C26_Witness ==
  /\ notifier = "fails"
  /\ pc = "exited"
  /\ terminal = "failed-early"
  /\ exitCode = 1
  /\ Len(notes) = 3
  /\ \A i \in 1..3 : notes[i].failed
  /\ notes[3].call = "openUrl"


\* C24: the dashboard declares the batch finished only when every deployment
\* in the status file has reached a terminal state of its monitor; it never
\* does so while the monitor of some entry is still polling.
C24_FinishedOnlyWhenMonitorsTerminal ==
  [][(hasFinished' /\ ~hasFinished) =>
       \A i \in 1..Len(file.data) : spc[file.data[i].productId] = "exited"]_vars


\* every run of the snapshot is complete and none failed, yet not all succeeded
CompleteNotPassed(s) ==
  /\ s.status \notin {"failed", "error"}
  /\ "test_runs" \in DOMAIN s
  /\ Len(s.test_runs) > 0
  /\ \A i \in 1..Len(s.test_runs) :
       s.test_runs[i].status \notin {"pending", "running", "queued", "failed", "error"}
  /\ \E i \in 1..Len(s.test_runs) : s.test_runs[i].status # "success"

C32_TimeoutKeepsLastProgress ==
  (/\ terminal = "timed-out"
   /\ status # <<>>
   /\ file.kind = "json"
   /\ Entry # <<>>)
  => (Entry.status = "timeout" /\ Entry.progress = calculateProgress(status))


\* C33: outside a batch, the URL opened on an early failure is the result_url
\* of the first run whose status is 'failed' or 'error', never that of a run
\* still pending; without such a run no URL is opened.
C33_OpensFirstFailedRunUrl ==
  \A n \in 1..Len(notes) :
    (notes[n].call = "openUrl" /\ terminal = "failed-early") =>
      /\ "test_runs" \in DOMAIN status
      /\ \E j \in 1..Len(status.test_runs) :
           /\ status.test_runs[j].status \in {"failed", "error"}
           /\ \A k \in 1..(j - 1) : status.test_runs[k].status \notin {"failed", "error"}
           /\ notes[n].url = status.test_runs[j].result_url


\* C34: checkStatus returns the parsed body only when it is an object; a body
\* that parses to null, a number, a string, a boolean or an array makes it fail
\* with the malformed error at that request, without a retry.
C34_OnlyObjectsAreReturned ==
  /\ pc = "returned" => (response.kind = "json" /\ response.value = "object")
  /\ (pc # "request" /\ response.kind = "json" /\ response.value # "object") =>
       /\ pc = "thrown"
       /\ lastError = <<"Invalid", "API", "response:", "expected", "object">>


\* C35: once every monitor sharing the status file has exited, the entry of
\* each monitor shows the terminal status that monitor wrote last, whatever the
\* interleaving of the monitors' reads and writes was.
C35_EntriesShowTerminalStatusAtTheEnd ==
  (\A p \in ProductIds : spc[p] = "exited") =>
    \A p \in ProductIds :
      /\ file.kind = "json"
      /\ EntryOf(file, p) # <<>>
      /\ EntryOf(file, p).status = calls[p][Len(calls[p])].updates.set.status


\* C36: the dashboard schedules its exit with code 0 only when every entry of
\* the status file it has just read has status 'success' or 'warning'; with a
\* failed, errored or timed-out deployment among them the code is not 0.
C36_DashboardExitsZeroOnlyOnAllSuccess ==
  [][(dashExit' = 0 /\ dashExit # 0) =>
       \A i \in 1..Len(file.data) : file.data[i].status \in {"success", "warning"}]_vars


\* C37: once the monitor has written 'success', 'failed' (on an early failure)
\* or 'timeout', it sends no request, begins no iteration and writes nothing
\* to the status file any more: its entry keeps the terminal status to the end.
C37_NothingAfterTheTerminalWrite ==
  /\ [][(terminal = "succeeded" \/ terminal = "failed-early" \/ terminal = "timed-out") =>
          (/\ file' = file
           /\ requests' = requests
           /\ attempts' = attempts
           /\ terminal' = terminal
           /\ pc' \in TerminalPhase)]_vars
  /\ []((config.statusFile /\ file.kind = "json" /\ terminal \notin {"none", "auth-error"}) =>
         /\ Entry # <<>>
         /\ Entry.status = (CASE terminal = "succeeded" -> "success"
                              [] terminal = "failed-early" -> "failed"
                              [] terminal = "timed-out" -> "timeout"))

\* the monitor wrote 'failed' in its second iteration, made its notifier call
\* and exited; the entry still says 'failed'
C37_Witness ==
  /\ pc = "exited"
  /\ terminal = "failed-early"
  /\ attempts = 2
  /\ file.kind = "json"
  /\ Entry # <<>>
  /\ Entry.status = "failed"
  /\ Len(notes) = 1


\* the status each terminal transition writes
TerminalStatus ==
  CASE terminal = "succeeded" -> "success"
    [] terminal = "failed-early" -> "failed"
    [] terminal = "timed-out" -> "timeout"
    [] terminal = "auth-error" -> "error"

\* C38: on every terminal transition (success, early failure, timeout,
\* authorization error) the terminal status is in the status file before the
\* notification is issued and before the exit: whenever a notifier call has
\* been made or the monitor has exited, its entry shows the terminal status,
\* and no notifier call is made by a step that also writes the file.
C38_TerminalStatusWrittenBeforeNotifying ==
  /\ []((notes # <<>> \/ pc = "exited") => terminal # "none")
  /\ []((config.statusFile /\ file.kind = "json" /\ (notes # <<>> \/ pc \in {"notify", "exited"})) =>
         /\ Entry # <<>>
         /\ Entry.status = TerminalStatus)
  /\ [][(notes' # notes) => (file' = file /\ terminal' = terminal /\ terminal # "none")]_vars

\* the authorization error has been written as 'error' and notified; the
\* monitor has not exited yet
C38_Witness ==
  /\ pc = "exit"
  /\ terminal = "auth-error"
  /\ Len(notes) = 1
  /\ notes[1].call = "notify"
  /\ file.kind = "json"
  /\ Entry # <<>>
  /\ Entry.status = "error"
  /\ exitCode = -1


\* both functions have been applied to a snapshot with a non-empty mapping
BothCalled ==
  /\ {"calculateProgress", "areTestsComplete"} \subseteq DOMAIN verdict
  /\ "test_runs" \in DOMAIN snapshot
  /\ Len(snapshot.test_runs) > 0

SomeRunUnfinished ==
  \E i \in 1..Len(snapshot.test_runs) :
    snapshot.test_runs[i].status \in {"pending", "running", "queued"}

\* C39 (as claimed): for every non-empty test_runs mapping of up to 200 runs,
\* calculateProgress returns 100 exactly when areTestsComplete is true, and a
\* value in 0..99 while some run is pending, running or queued.
C39_HundredPercentIffComplete ==
  BothCalled =>
    /\ (verdict["calculateProgress"] = 100) <=> verdict["areTestsComplete"]
    /\ SomeRunUnfinished => verdict["calculateProgress"] \in 0..99

\* C39 (amended): the same for mappings of fewer than 200 runs; from 200 runs
\* on, a single unfinished run among finished ones is rounded up to 100.
C39_HundredPercentIffCompleteBelow200 ==
  BothCalled =>
    /\ Len(snapshot.test_runs) < 200 =>
         /\ (verdict["calculateProgress"] = 100) <=> verdict["areTestsComplete"]
         /\ SomeRunUnfinished => verdict["calculateProgress"] \in 0..99
    /\ (/\ Len(snapshot.test_runs) >= 200
        /\ Cardinality({i \in 1..Len(snapshot.test_runs) :
                          snapshot.test_runs[i].status \in {"pending", "running", "queued"}}) = 1)
       => (verdict["calculateProgress"] = 100 /\ ~verdict["areTestsComplete"])

\* 199 runs, one of them still running: progress 99, not complete
C39_Witness ==
  /\ BothCalled
  /\ Len(snapshot.test_runs) = 199
  /\ snapshot.test_runs[199].status = "running"
  /\ snapshot.test_runs[198].status = "success"
  /\ verdict["calculateProgress"] = 99
  /\ ~verdict["areTestsComplete"]

====
